---- MODULE Spec2Model ----
(***************************************************************************)
(* Model of the donuts.node HTTP pipeline (HttpPipeline.requestAsync) and  *)
(* of the per-site authentication response handler (createResponseHandler  *)
(* / acquireTokenAsync) that runs inside it.                               *)
(*                                                                         *)
(* JavaScript runs the code on one thread: an action of this model is one  *)
(* run-to-completion step, from the resumption of an awaited promise up to *)
(* the next suspension point.                                              *)
(***************************************************************************)
EXTENDS Integers, Sequences, FiniteSets, TLC

VARIABLES
    requestTemplate,  \* HttpPipeline.requestTemplate: <<>> when unset, <<t>> when set to t
    siteMap,          \* the handler's closure state: siteId -> record
    calls,            \* the requestAsync invocations, in the order they were made
    attempts,         \* the acquireTokenAsync invocations, in the order they were made
    merge,            \* SpecMerge: one template merge, its inputs and its result
    chain,            \* SpecChain: the handler arrays, the request objects and the
                      \* requestAsync invocations of a pipeline with any handlers
    node              \* SpecNode: one invocation of the transport request handler

vars == <<requestTemplate, siteMap, calls, attempts, merge, chain, node>>

----------------------------------------------------------------------------
(* Bounds of the model *)

MaxUserCalls == 2   \* requestAsync invocations made by callers of the pipeline
MaxCalls == 4       \* all requestAsync invocations, nested ones included
MaxAttempts == 2    \* acquireTokenAsync invocations

\* The hosts there are, and the hosts the callers of Spec send requests to.
Sites == {"a", "b"}
RequestedSites == {"a"}

\* Status codes of the response the login flow may hand back.
LoginStatuses == {200}

\* A header is {name, value}.
Header(n, v) == [name |-> n, value |-> v]

\* The header lists callers put on their requests in Spec ("headers" may also be left out).
AuthHeaders == <<Header("Authorization", "t")>>

----------------------------------------------------------------------------
(* HttpPipeline.requestAsync: the template merge *)

\* A request is a function from the names of the fields it has to their values.
HasHeaders(request) == "headers" \in DOMAIN request

\* ObjectAssign with the sources in the other order:
\* Object.assign(Object.create(null), request, template).
ObjectAssign_TemplateWins(template, request) ==
    [f \in (DOMAIN template) \cup (DOMAIN request) |->
        IF f \in DOMAIN template THEN template[f] ELSE request[f]]

\* Object.assign(Object.create(null), template, request)
ObjectAssign(template, request) ==
    [f \in (DOMAIN template) \cup (DOMAIN request) |->
        IF f \in DOMAIN request THEN request[f] ELSE template[f]]

\* headers = []; push(...template.headers); if (request.headers) headers.push(...headers)
MergeHeaders(template, request) ==
    LET headers0 == IF HasHeaders(template) THEN template.headers ELSE <<>>
    IN  IF HasHeaders(request) THEN headers0 \o headers0 ELSE headers0

\* The effective request handed to the handlers.
EffectiveRequest(tmpl, request) ==
    IF tmpl = <<>>
        THEN request
        ELSE LET merged == ObjectAssign(tmpl[1], request)
                 headers == MergeHeaders(tmpl[1], request)
             IN  [f \in (DOMAIN merged) \cup {"headers"} |->
                    IF f = "headers" THEN headers ELSE merged[f]]

----------------------------------------------------------------------------
(* The transport request handler (node.ts), as far as it changes the request *)

\* A body is modelled by the kind of value it is; a request without the field has
\* body undefined.
RawBodies == {"string", "buffer"}

ContentTypeJson == Header("Content-Type", "application/json; charset=utf-8")

\* request.headers.findIndex((value) => value.name === "Content-Type"), from 1; 0: none
FindContentType(headers) ==
    IF \E i \in 1..Len(headers) : headers[i].name = "Content-Type"
        THEN CHOOSE i \in 1..Len(headers) :
                /\ headers[i].name = "Content-Type"
                /\ \A j \in 1..(i - 1) : headers[j].name # "Content-Type"
        ELSE 0

\* handleRequestAsync, lines 81-102: a body that is neither a Buffer nor a string is
\* sent as JSON, and the request's own header list is given the Content-Type header,
\* in place of its first Content-Type header or at the end (the list is created
\* when the request has none).
ApplyBody(request) ==
    IF "body" \in DOMAIN request /\ request.body \in RawBodies
        THEN request
        ELSE LET headers == IF HasHeaders(request) THEN request.headers ELSE <<>>
                 index == FindContentType(headers)
                 set == IF index > 0
                            THEN [headers EXCEPT ![index] = ContentTypeJson]
                            ELSE Append(headers, ContentTypeJson)
             IN  [f \in (DOMAIN request) \cup {"headers"} |->
                    IF f = "headers" THEN set ELSE request[f]]

\* What requestAsync leaves in request when it suspends on the request handler: the
\* effective request, as the request handler has left it.
IssuedRequest(tmpl, request) == ApplyBody(EffectiveRequest(tmpl, request))

----------------------------------------------------------------------------
(* createResponseHandler: the decisions of the handler *)

Record(state, attempt) == [state |-> state, attempt |-> attempt]
Absent == Record("absent", 0)
Retry == Record("Retry", 0)
NotSupported == Record("NotSupported", 0)
InFlight(a) == Record("Promise", a)

\* response.statusCode !== 401 && response.statusCode !== 403 is false
IsChallenge(status) == status = 401 \/ status = 403

\* SiteId of a handler that keeps one record for all hosts.
SiteId_Shared(request) == "a"

\* url.parse(request.url).host
SiteId(request) == request.url

\* request.headers.find((header) => header.name === "Authorization")
FindAuthorization(request) ==
    \E i \in 1..Len(request.headers) : request.headers[i].name = "Authorization"

\* HandlerPath without the instanceof Promise branch: an in-flight record is not
\* recognised and the caller goes on to line 82.
HandlerPath_IgnoreInFlight(request, record) ==
    IF ~HasHeaders(request) THEN "throw"
    ELSE IF ~FindAuthorization(request) /\ record.state = "Retry" THEN "retry"
    ELSE IF ~FindAuthorization(request) /\ record.state = "NotSupported" THEN "decline"
    ELSE "acquire"

\* The path the handler takes for a 401/403 response:
\*   "throw"   request.headers is undefined, .find raises a TypeError
\*   "wait"    record.then(() => pipeline.requestAsync(request))
\*   "retry"   pipeline.requestAsync(request)
\*   "decline" return undefined
\*   "acquire" siteMap[siteId] = acquireTokenAsync(...)
HandlerPath(request, record) ==
    IF ~HasHeaders(request) THEN "throw"
    ELSE IF ~FindAuthorization(request) /\ record.state = "Promise" THEN "wait"
    ELSE IF ~FindAuthorization(request) /\ record.state = "Retry" THEN "retry"
    ELSE IF ~FindAuthorization(request) /\ record.state = "NotSupported" THEN "decline"
    ELSE "acquire"

\* The status codes a site answers a request with: success, a challenge (401 to a
\* request without credentials, 403 to one with), another failure.
Statuses(request) ==
    {200, 404, IF HasHeaders(request) /\ FindAuthorization(request) THEN 403 ELSE 401}

\* SettledRecord with the two outcomes exchanged.
SettledRecord_Swapped(value) == IF value # 0 THEN NotSupported ELSE Retry

\* tokenPromise.then((response) => siteMap[siteId] = response ? "Retry" : "NotSupported")
\* A fulfilled attempt's value is the status of the response it yielded, 0 for undefined.
SettledRecord(value) == IF value # 0 THEN Retry ELSE NotSupported

----------------------------------------------------------------------------
(* The invocations *)

\* A requestAsync invocation. pc is where it is suspended:
\*   "transport"     awaiting the request handler
\*   "awaitAttempt"  awaiting the tokenPromise the handler returned
\*   "awaitRecord"   awaiting record.then(...) before the request is issued again
\*   "awaitRetry"    awaiting the nested pipeline.requestAsync
\*   "done"          resolved with response;  "failed"  rejected
\* response is the local variable response (0 while unset), token the attempt whose
\* promise the handler took from or put into siteMap (0: none), retry the nested
\* requestAsync the handler made for the same request (0: none), by the invocation
\* whose handler made this one (0: a caller of the pipeline).
Call(kind, request, by) ==
    [kind |-> kind, request |-> request, pc |-> "transport",
     response |-> 0, token |-> 0, retry |-> 0, by |-> by]

\* An acquireTokenAsync invocation. stage is where it is:
\*   "metadata"  awaiting the metadata request (call meta)
\*   "login"     awaiting handleAadAsync
\*   "fulfilled" resolved with value;  "rejected"
\* then is TRUE once the .then callback of line 84 has run.
Attempt(site, initiator, meta) ==
    [site |-> site, initiator |-> initiator, meta |-> meta,
     stage |-> "metadata", value |-> 0, then |-> FALSE]

Pending(a) == attempts[a].stage \in {"metadata", "login"}

\* {method: "GET", url: url.resolve(request.url, "/$/GetAadMetadata?api-version=1.0")}
MetadataRequest(request) == [url |-> request.url]

\* What callers pass to requestAsync: neither headers nor body, a string body and no
\* headers, an Authorization header and no body.
UserRequests ==
    UNION {{[url |-> s],
            [url |-> s, body |-> "string"],
            [url |-> s, headers |-> AuthHeaders]} : s \in RequestedSites}

\* The template of a behaviour: unset, without headers, with an Authorization header.
Templates == {<<>>, <<[headers |-> <<>>]>>, <<[headers |-> AuthHeaders]>>}

NoMerge == [tmpl |-> <<>>, request |-> [url |-> "a"], effective |-> <<>>]

\* A pipeline without handlers and invocations; no transport invocation.
NoChain == [requestHandlers |-> <<>>, responseHandlers |-> 0, objects |-> <<>>, frames |-> <<>>]
NoNode == [phase |-> "idle"]

Init ==
    /\ requestTemplate \in Templates
    /\ siteMap = [s \in Sites |-> Absent]
    /\ calls = <<>>
    /\ attempts = <<>>
    /\ merge = NoMerge
    /\ chain = NoChain
    /\ node = NoNode

\* A caller invokes pipeline.requestAsync(request): the template is merged and the
\* request handler is invoked; the call suspends on it.
RequestAsync(request) ==
    /\ Len(calls) < MaxCalls
    /\ Cardinality({c \in 1..Len(calls) : calls[c].kind = "user"}) < MaxUserCalls
    /\ calls' = Append(calls, Call("user", IssuedRequest(requestTemplate, request), 0))
    /\ UNCHANGED <<requestTemplate, siteMap, attempts, merge, chain, node>>

Finish(c, response) == [calls EXCEPT ![c].pc = "done", ![c].response = response]
Fail(c, response) == [calls EXCEPT ![c].pc = "failed", ![c].response = response]
AwaitToken(c, response, pc, a) ==
    [calls EXCEPT ![c].pc = pc, ![c].response = response, ![c].token = a]
AwaitRetry(c, response, r) ==
    [calls EXCEPT ![c].pc = "awaitRetry", ![c].response = response, ![c].retry = r]

\* The request handler resolves with a response of the given status; requestAsync
\* resumes and runs the response handler up to its return.
TransportResponds(c, status) ==
    /\ calls[c].pc = "transport"
    /\ LET request == calls[c].request
           siteId == SiteId(request)
           path == IF IsChallenge(status) THEN HandlerPath(request, siteMap[siteId])
                   ELSE "decline"
       IN  CASE path = "throw" ->
                  /\ calls' = Fail(c, status)
                  /\ UNCHANGED <<siteMap, attempts>>
             [] path = "decline" ->
                  /\ calls' = Finish(c, status)
                  /\ UNCHANGED <<siteMap, attempts>>
             [] path = "wait" ->
                  /\ calls' = AwaitToken(c, status, "awaitRecord", siteMap[siteId].attempt)
                  /\ UNCHANGED <<siteMap, attempts>>
             [] path = "retry" ->
                  /\ Len(calls) < MaxCalls
                  /\ calls' = Append(AwaitRetry(c, status, Len(calls) + 1),
                                     Call("retry", IssuedRequest(requestTemplate, request), c))
                  /\ UNCHANGED <<siteMap, attempts>>
             [] path = "acquire" ->
                  /\ Len(calls) < MaxCalls
                  /\ Len(attempts) < MaxAttempts
                  /\ calls' = Append(AwaitToken(c, status, "awaitAttempt", Len(attempts) + 1),
                                     Call("metadata",
                                          IssuedRequest(requestTemplate,
                                                        MetadataRequest(request)),
                                          c))
                  /\ attempts' = Append(attempts, Attempt(siteId, c, Len(calls) + 1))
                  /\ siteMap' = [siteMap EXCEPT ![siteId] = InFlight(Len(attempts) + 1)]
    /\ UNCHANGED <<requestTemplate, merge, chain, node>>

\* The request handler rejects.
TransportFails(c) ==
    /\ calls[c].pc = "transport"
    /\ calls' = Fail(c, 0)
    /\ UNCHANGED <<requestTemplate, siteMap, attempts, merge, chain, node>>

\* ThenReady of a handler that issues the request again without waiting for the
\* promise: record.then(pipeline.requestAsync(request)).
ThenReady_Eager(a) == a.stage # "rejected"

\* ThenReady of a promise that serves its reactions in no particular order: the
\* initiator's continuation or a waiter's callback may run before the callback of
\* line 84.
ThenReady_Unordered(a) == a.stage = "fulfilled"

\* A callback given to then() of a tokenPromise, or the continuation of an await
\* of it, runs once the promise is fulfilled, and after the callback of line 84,
\* which was attached to the promise first.
ThenReady(a) == a.stage = "fulfilled" /\ a.then

\* The nested pipeline.requestAsync(request) a handler returned has settled: the
\* handler's result replaces the response and requestAsync returns.
RetrySettles(c) ==
    /\ calls[c].pc = "awaitRetry"
    /\ calls[calls[c].retry].pc \in {"done", "failed"}
    /\ calls' = IF calls[calls[c].retry].pc = "done"
                    THEN Finish(c, calls[calls[c].retry].response)
                    ELSE Fail(c, calls[c].response)
    /\ UNCHANGED <<requestTemplate, siteMap, attempts, merge, chain, node>>

\* The tokenPromise the handler returned to the initiator has settled:
\* response = await handleResponseAsync(...) || response. The callback of line 84
\* was attached to the promise first, so it has run before.
TokenSettles(c) ==
    /\ calls[c].pc = "awaitAttempt"
    /\ LET a == attempts[calls[c].token]
       IN  \/ /\ ThenReady(a)
              /\ calls' = Finish(c, IF a.value # 0 THEN a.value ELSE calls[c].response)
           \/ /\ a.stage = "rejected"
              /\ calls' = Fail(c, calls[c].response)
    /\ UNCHANGED <<requestTemplate, siteMap, attempts, merge, chain, node>>

\* record.then(() => pipeline.requestAsync(request)): the record a caller found has
\* settled. Fulfilled, whatever the value: the request is issued again. Rejected:
\* the rejection passes to the caller.
RecordThen(c) ==
    /\ calls[c].pc = "awaitRecord"
    /\ LET a == attempts[calls[c].token]
       IN  \/ /\ ThenReady(a)
              /\ Len(calls) < MaxCalls
              /\ calls' = Append(AwaitRetry(c, calls[c].response, Len(calls) + 1),
                                 Call("retry",
                                      IssuedRequest(requestTemplate, calls[c].request), c))
           \/ /\ a.stage = "rejected"
              /\ calls' = Fail(c, calls[c].response)
    /\ UNCHANGED <<requestTemplate, siteMap, attempts, merge, chain, node>>

Settle(a, stage, value) ==
    [attempts EXCEPT ![a].stage = stage, ![a].value = value]

\* What the metadata response carries in data: nothing parsed, AAD metadata, other metadata.
MetadataData == {"undefined", "aad", "other"}

\* acquireTokenAsync resumes with the metadata response (lines 37-47), or with the
\* rejection of the metadata request.
MetadataSettles(a, data) ==
    /\ attempts[a].stage = "metadata"
    /\ LET m == calls[attempts[a].meta]
       IN  /\ m.pc \in {"done", "failed"}
           /\ attempts' =
                IF m.pc = "failed" THEN Settle(a, "rejected", 0)
                ELSE IF m.response # 200 THEN Settle(a, "fulfilled", 0)
                ELSE IF data = "undefined" THEN Settle(a, "rejected", 0)
                ELSE IF data # "aad" THEN Settle(a, "fulfilled", 0)
                ELSE [attempts EXCEPT ![a].stage = "login"]
    /\ UNCHANGED <<requestTemplate, siteMap, calls, merge, chain, node>>

\* handleAadAsync settles: with a response (its status), with undefined (0), or it rejects.
LoginSettles(a, value) ==
    /\ attempts[a].stage = "login"
    /\ attempts' = Settle(a, "fulfilled", value)
    /\ UNCHANGED <<requestTemplate, siteMap, calls, merge, chain, node>>

LoginFails(a) ==
    /\ attempts[a].stage = "login"
    /\ attempts' = Settle(a, "rejected", 0)
    /\ UNCHANGED <<requestTemplate, siteMap, calls, merge, chain, node>>

\* The callback of line 84 runs: only on fulfilment, no rejection callback is given.
TokenThen(a) ==
    /\ attempts[a].stage = "fulfilled"
    /\ ~attempts[a].then
    /\ attempts' = [attempts EXCEPT ![a].then = TRUE]
    /\ siteMap' = [siteMap EXCEPT ![attempts[a].site] = SettledRecord(attempts[a].value)]
    /\ UNCHANGED <<requestTemplate, calls, merge, chain, node>>

Next ==
    \/ \E r \in UserRequests : RequestAsync(r)
    \/ \E c \in 1..Len(calls) :
            \E s \in Statuses(calls[c].request) : TransportResponds(c, s)
    \/ \E c \in 1..Len(calls) : TransportFails(c)
    \/ \E c \in 1..Len(calls) : RetrySettles(c)
    \/ \E c \in 1..Len(calls) : TokenSettles(c)
    \/ \E c \in 1..Len(calls) : RecordThen(c)
    \/ \E a \in 1..Len(attempts), d \in MetadataData : MetadataSettles(a, d)
    \/ \E a \in 1..Len(attempts), v \in {0} \cup LoginStatuses : LoginSettles(a, v)
    \/ \E a \in 1..Len(attempts) : LoginFails(a)
    \/ \E a \in 1..Len(attempts) : TokenThen(a)

Spec == Init /\ [][Next]_vars

\* The steps that are not a caller's: a transport call, a login-flow call or a
\* promise settles, a continuation or a then() callback runs.
Settles ==
    \/ \E c \in 1..Len(calls) :
            \E s \in Statuses(calls[c].request) : TransportResponds(c, s)
    \/ \E c \in 1..Len(calls) : TransportFails(c)
    \/ \E c \in 1..Len(calls) : RetrySettles(c)
    \/ \E c \in 1..Len(calls) : TokenSettles(c)
    \/ \E c \in 1..Len(calls) : RecordThen(c)
    \/ \E a \in 1..Len(attempts), d \in MetadataData : MetadataSettles(a, d)
    \/ \E a \in 1..Len(attempts), v \in {0} \cup LoginStatuses : LoginSettles(a, v)
    \/ \E a \in 1..Len(attempts) : LoginFails(a)
    \/ \E a \in 1..Len(attempts) : TokenThen(a)

\* Spec where every transport call and every login-flow call settles and the job
\* queue of the event loop is served: a step of Settles that can be taken is taken.
\* Callers need not call.
SpecLive == Init /\ [][Next]_vars /\ WF_vars(Settles)

----------------------------------------------------------------------------
(* The handler with callers of two hosts: the actions of Spec, no template, the
   requests without headers and body. *)

SiteRequests == {[url |-> s] : s \in Sites}

InitSites ==
    /\ requestTemplate = <<>>
    /\ siteMap = [s \in Sites |-> Absent]
    /\ calls = <<>>
    /\ attempts = <<>>
    /\ merge = NoMerge
    /\ chain = NoChain
    /\ node = NoNode

NextSites ==
    \/ \E r \in SiteRequests : RequestAsync(r)
    \/ \E c \in 1..Len(calls) :
            \E s \in Statuses(calls[c].request) : TransportResponds(c, s)
    \/ \E c \in 1..Len(calls) : TransportFails(c)
    \/ \E c \in 1..Len(calls) : RetrySettles(c)
    \/ \E c \in 1..Len(calls) : TokenSettles(c)
    \/ \E c \in 1..Len(calls) : RecordThen(c)
    \/ \E a \in 1..Len(attempts), d \in MetadataData : MetadataSettles(a, d)
    \/ \E a \in 1..Len(attempts), v \in {0} \cup LoginStatuses : LoginSettles(a, v)
    \/ \E a \in 1..Len(attempts) : LoginFails(a)
    \/ \E a \in 1..Len(attempts) : TokenThen(a)

SpecSites == InitSites /\ [][NextSites]_vars

----------------------------------------------------------------------------
(* The handler of a pipeline that has authenticated to host a before: the actions
   of Spec from the state in which an attempt for a has yielded a response, its
   callback has set the record to "Retry" and every invocation has returned. *)

InitRetry ==
    /\ requestTemplate \in Templates
    /\ siteMap = [s \in Sites |-> IF s \in RequestedSites THEN Retry ELSE Absent]
    /\ calls = <<>>
    /\ attempts = <<>>
    /\ merge = NoMerge
    /\ chain = NoChain
    /\ node = NoNode

SpecRetry == InitRetry /\ [][Next]_vars

----------------------------------------------------------------------------
(* The template merge on its own: Init draws a template and a request, the one
   action is the merge of requestAsync. *)

MaxHeaders == 2

HeaderChoices == {Header("Authorization", "t"), Header("Accept", "j")}

HeaderLists ==
    UNION {[1..n -> HeaderChoices] : n \in 0..MaxHeaders}

MergeTemplates ==
    {<<>>, <<[method |-> "GET"]>>}
        \cup {<<[method |-> "GET", headers |-> h]>> : h \in HeaderLists}

MergeRequests ==
    {[url |-> "a"], [url |-> "a", method |-> "POST"]}
        \cup {[url |-> "a", headers |-> h] : h \in HeaderLists}

InitMerge ==
    /\ requestTemplate \in MergeTemplates
    /\ siteMap = [s \in Sites |-> Absent]
    /\ calls = <<>>
    /\ attempts = <<>>
    /\ merge \in {[tmpl |-> requestTemplate, request |-> r, effective |-> <<>>] :
                    r \in MergeRequests}
    /\ chain = NoChain
    /\ node = NoNode

\* requestAsync, lines 48-61: the effective request of one invocation.
MergeStep ==
    /\ merge.effective = <<>>
    /\ merge' = [merge EXCEPT !.effective = <<EffectiveRequest(merge.tmpl, merge.request)>>]
    /\ UNCHANGED <<requestTemplate, siteMap, calls, attempts, chain, node>>

NextMerge == MergeStep

SpecMerge == InitMerge /\ [][NextMerge]_vars

----------------------------------------------------------------------------
(* The handler chains of requestAsync on their own: a pipeline with any request
   handlers and response handlers, Init draws the handler arrays and the template.
   Requests and headers are objects here: the merge copies references to the
   template's header objects, and a handler that writes to a request or to a header
   writes to every request that holds the same object. *)

MaxRequestHandlers == 3
MaxResponseHandlers == 2
MaxFrames == 2      \* requestAsync invocations, nested ones included

\* A request handler is the transport of node.ts or some other HttpRequestHandler,
\* known only by what it returns. A response handler is some HttpResponseHandler.
RequestHandlerKinds == {"transport", "other"}

\* What the i-th handler of a chain resolves with when it returns a response, and
\* the error it rejects with; 0 stands for undefined.
HandlerResponse(chainName, i) == IF chainName = "request" THEN i ELSE 10 + i
HandlerError(chainName, i) == [chain |-> chainName, index |-> i]
NoError == HandlerError("none", 0)

\* new Error("No request handler handled request.")
NoHandlerError == HandlerError("pipeline", 0)

\* A header of a request object is a reference: to the k-th header object of the
\* template (shared > 0) or to an object of the request's own.
SharedCell(k) == [shared |-> k, own |-> Header("", "")]
OwnCell(h) == [shared |-> 0, own |-> h]
CellValue(tmpl, cell) == IF cell.shared > 0 THEN tmpl[1].headers[cell.shared] ELSE cell.own

\* The request a request object stands for: its fields, the headers by value.
RequestValue(tmpl, obj) ==
    IF HasHeaders(obj)
        THEN [obj EXCEPT !.headers = [k \in 1..Len(obj.headers) |->
                                        CellValue(tmpl, obj.headers[k])]]
        ELSE obj

\* The template with its headers as references to themselves.
TemplateCells(t) ==
    IF HasHeaders(t)
        THEN [t EXCEPT !.headers = [k \in 1..Len(t.headers) |-> SharedCell(k)]]
        ELSE t

\* The program state the steps of requestAsync work on.
World == [tmpl |-> requestTemplate, objects |-> chain.objects, frames |-> chain.frames]

\* requestAsync, lines 48-61, for the request object o: without a template the
\* effective request is o itself, with one it is a new object.
Merged(w, o) ==
    IF w.tmpl = <<>>
        THEN [world |-> w, object |-> o]
        ELSE [world |-> [w EXCEPT !.objects =
                            Append(@, EffectiveRequest(<<TemplateCells(w.tmpl[1])>>,
                                                       w.objects[o]))],
              object |-> Len(w.objects) + 1]

\* handleRequestAsync, lines 81-102, for the request object o: the Content-Type
\* header is written into the header object found in request.headers, or pushed
\* onto request.headers as a new object.
TransportWrites(w, o) ==
    LET obj == w.objects[o]
        cells == IF HasHeaders(obj) THEN obj.headers ELSE <<>>
        index == FindContentType([k \in 1..Len(cells) |-> CellValue(w.tmpl, cells[k])])
        WithHeaders(h) ==
            [f \in (DOMAIN obj) \cup {"headers"} |-> IF f = "headers" THEN h ELSE obj[f]]
    IN  IF "body" \in DOMAIN obj /\ obj.body \in RawBodies
            THEN w
        ELSE IF index = 0
            THEN [w EXCEPT !.objects[o] =
                    WithHeaders(Append(cells, OwnCell(ContentTypeJson)))]
        ELSE IF cells[index].shared = 0
            THEN [w EXCEPT !.objects[o] =
                    WithHeaders([cells EXCEPT ![index] = OwnCell(ContentTypeJson)])]
        ELSE [w EXCEPT !.tmpl[1].headers[cells[index].shared] = ContentTypeJson]

\* A requestAsync invocation: request is its effective request object, by the
\* invocation whose response handler made it (0: a caller of the pipeline), phase
\* and index the handler it awaits ("request"/"response" chain, index from 1) or
\* "done" / "failed", response the local variable response, trace the handler
\* invocations it has made.
Frame(o, by) ==
    [request |-> o, by |-> by, phase |-> "request", index |-> 0,
     response |-> 0, error |-> NoError, trace |-> <<>>]

\* A handler invocation: the chain and index of the handler, the request and the
\* response it was given, the requestAsync invocation it made (0: none), and how
\* its promise settled.
Invocation(chainName, i, request, response, nested) ==
    [chain |-> chainName, index |-> i, request |-> request, response |-> response,
     nested |-> nested, status |-> "pending", result |-> 0, error |-> NoError]

\* FailFrame with the error replaced by the pipeline's own.
FailFrame_Replaced(frame, error) ==
    [frame EXCEPT !.phase = "failed", !.error = NoHandlerError]

\* requestAsync is an async function: an error thrown in it, or by an awaited
\* handler, rejects the promise it returned with that error.
FailFrame(frame, error) ==
    [frame EXCEPT !.phase = "failed", !.error = error]

\* response = await handleRequestAsync(this, request), line 68, up to the await.
InvokeRequestHandler(w, f, i) ==
    LET o == w.frames[f].request
        entry == Invocation("request", i, RequestValue(w.tmpl, w.objects[o]), 0, 0)
        w1 == [w EXCEPT !.frames[f].index = i,
                        !.frames[f].trace = Append(@, entry)]
    IN  IF chain.requestHandlers[i] = "transport" THEN TransportWrites(w1, o) ELSE w1

\* requestAsync(o) up to its first await, called by the response handler of
\* invocation by.
RequestAsyncIn(w, o, by) ==
    LET m == Merged(w, o)
        f == Len(w.frames) + 1
        w1 == [m.world EXCEPT !.frames = Append(@, Frame(m.object, by))]
    IN  IF Len(chain.requestHandlers) = 0
            THEN [w1 EXCEPT !.frames[f] = FailFrame(@, NoHandlerError)]
            ELSE InvokeRequestHandler(w1, f, 1)

\* What a response handler does before it returns its promise: nothing the
\* pipeline sees, pipeline.requestAsync(request) with the request it was given, or
\* pipeline.requestAsync of a request of its own.
NestedChoices == {"none", "same", "fresh"}
NestedRequest == [url |-> "a"]

\* await handleResponseAsync(this, request, response), line 82, up to the await.
InvokeResponseHandler(w, f, j, n) ==
    LET o == w.frames[f].request
        g == IF n = "none" THEN 0 ELSE Len(w.frames) + 1
        entry == Invocation("response", j, RequestValue(w.tmpl, w.objects[o]),
                            w.frames[f].response, g)
        w1 == [w EXCEPT !.frames[f].index = j,
                        !.frames[f].trace = Append(@, entry)]
    IN  CASE n = "none" -> w1
          [] n = "same" -> RequestAsyncIn(w1, o, f)
          [] n = "fresh" ->
                RequestAsyncIn([w1 EXCEPT !.objects = Append(@, NestedRequest)],
                               Len(w1.objects) + 1, f)

\* The loop of lines 81-83 after handler j (0: before the first) and the return of
\* line 85.
ResponseLoop(w, f, j, response, n) ==
    LET w1 == [w EXCEPT !.frames[f].phase = "response", !.frames[f].index = j,
                        !.frames[f].response = response]
    IN  IF j < chain.responseHandlers
            THEN InvokeResponseHandler(w1, f, j + 1, n)
            ELSE [w1 EXCEPT !.frames[f].phase = "done"]

\* RequestChainStops of a loop without the break of line 71.
RequestChainStops_Never(response) == FALSE

\* if (response) break, line 70
RequestChainStops(response) == response # 0

\* Unhandled of a pipeline without the throw of line 76.
Unhandled_Never(response) == FALSE

\* if (!response), line 75
Unhandled(response) == response = 0

\* The loop of lines 67-73 after handler i has resolved with response, and lines
\* 75-77.
RequestLoop(w, f, i, response, n) ==
    LET w1 == [w EXCEPT !.frames[f].response = response]
    IN  IF RequestChainStops(response) THEN ResponseLoop(w1, f, 0, response, n)
        ELSE IF i < Len(chain.requestHandlers) THEN InvokeRequestHandler(w1, f, i + 1)
        ELSE IF Unhandled(response)
            THEN [w1 EXCEPT !.frames[f] = FailFrame(@, NoHandlerError)]
        ELSE ResponseLoop(w1, f, 0, response, n)

\* Replaced with the handler's result taken as it is: response = await handle(...).
Replaced_Always(result, response) == result

\* await handleResponseAsync(this, request, response) || response, line 82
Replaced(result, response) == IF result # 0 THEN result ELSE response

\* The promise of the handler a frame awaits settles.
Settled(frame, status, result, error) ==
    [frame EXCEPT !.trace[Len(frame.trace)] =
        [@ EXCEPT !.status = status, !.result = result, !.error = error]]

\* The handler invocation a frame awaits.
Awaited(f) == chain.frames[f].trace[Len(chain.frames[f].trace)]

Commit(w) ==
    /\ requestTemplate' = w.tmpl
    /\ chain' = [chain EXCEPT !.objects = w.objects, !.frames = w.frames]
    /\ UNCHANGED <<siteMap, calls, attempts, merge, node>>

\* What a caller passes to requestAsync: a request without a body, one with a
\* string body.
ChainRequests == {[url |-> "a"], [url |-> "a", body |-> "string"]}

\* The template of a behaviour: unset, or with a Content-Type header.
ChainTemplates == {<<>>, <<[headers |-> <<Header("Content-Type", "text/plain")>>]>>}

RequestHandlerLists ==
    UNION {[1..k -> RequestHandlerKinds] : k \in 0..MaxRequestHandlers}

InitChain ==
    /\ requestTemplate \in ChainTemplates
    /\ siteMap = [s \in Sites |-> Absent]
    /\ calls = <<>>
    /\ attempts = <<>>
    /\ merge = NoMerge
    /\ chain \in {[requestHandlers |-> h, responseHandlers |-> k,
                   objects |-> <<>>, frames |-> <<>>] :
                    h \in RequestHandlerLists, k \in 0..MaxResponseHandlers}
    /\ node = NoNode

\* A caller invokes pipeline.requestAsync(r), once in a behaviour: every other
\* invocation is one a response handler makes.
ChainRequestAsync(r) ==
    /\ chain.frames = <<>>
    /\ Commit(RequestAsyncIn([World EXCEPT !.objects = Append(@, r)],
                             Len(chain.objects) + 1, 0))

\* The request handler a frame awaits resolves, with a response or with undefined
\* (the transport, given an http request, never with undefined); requestAsync
\* resumes and runs up to its next await, a response handler it invokes doing n.
RequestHandlerReturns(f, result, n) ==
    /\ chain.frames[f].phase = "request"
    /\ chain.requestHandlers[chain.frames[f].index] = "transport" => result # 0
    /\ n # "none" => Len(chain.frames) < MaxFrames
    /\ Commit(RequestLoop([World EXCEPT !.frames[f] = Settled(@, "returned", result, NoError)],
                          f, chain.frames[f].index, result, n))

\* The request handler a frame awaits rejects.
RequestHandlerThrows(f) ==
    /\ chain.frames[f].phase = "request"
    /\ LET error == HandlerError("request", chain.frames[f].index)
       IN  Commit([World EXCEPT !.frames[f] =
                        FailFrame(Settled(@, "threw", 0, error), error)])

\* The response handler a frame awaits, one that made no nested call, resolves.
ResponseHandlerReturns(f, result, n) ==
    /\ chain.frames[f].phase = "response"
    /\ Awaited(f).nested = 0
    /\ n # "none" => Len(chain.frames) < MaxFrames
    /\ Commit(ResponseLoop([World EXCEPT !.frames[f] = Settled(@, "returned", result, NoError)],
                           f, chain.frames[f].index,
                           Replaced(result, chain.frames[f].response), n))

\* The response handler a frame awaits, one that made no nested call, rejects.
ResponseHandlerThrows(f) ==
    /\ chain.frames[f].phase = "response"
    /\ Awaited(f).nested = 0
    /\ LET error == HandlerError("response", chain.frames[f].index)
       IN  Commit([World EXCEPT !.frames[f] =
                        FailFrame(Settled(@, "threw", 0, error), error)])

\* The nested requestAsync a response handler returned has settled, and with it the
\* handler's promise: return pipeline.requestAsync(request).
NestedSettles(f, n) ==
    /\ chain.frames[f].phase = "response"
    /\ Awaited(f).nested # 0
    /\ n # "none" => Len(chain.frames) < MaxFrames
    /\ LET g == chain.frames[Awaited(f).nested]
       IN  \/ /\ g.phase = "done"
              /\ Commit(ResponseLoop([World EXCEPT !.frames[f] =
                                        Settled(@, "returned", g.response, NoError)],
                                     f, chain.frames[f].index,
                                     Replaced(g.response, chain.frames[f].response), n))
           \/ /\ g.phase = "failed"
              /\ Commit([World EXCEPT !.frames[f] =
                            FailFrame(Settled(@, "threw", 0, g.error), g.error)])

FrameIds == 1..Len(chain.frames)

\* One call of a caller, with response handlers that call nothing.
NextChain ==
    \/ \E r \in ChainRequests : ChainRequestAsync(r)
    \/ \E f \in FrameIds :
            \E result \in {0, HandlerResponse("request", chain.frames[f].index)} :
                RequestHandlerReturns(f, result, "none")
    \/ \E f \in FrameIds : RequestHandlerThrows(f)
    \/ \E f \in FrameIds :
            \E result \in {0, HandlerResponse("response", chain.frames[f].index)} :
                ResponseHandlerReturns(f, result, "none")
    \/ \E f \in FrameIds : ResponseHandlerThrows(f)

SpecChain == InitChain /\ [][NextChain]_vars

\* One call of a caller, with response handlers that may call requestAsync.
NextReentrant ==
    \/ \E r \in ChainRequests : ChainRequestAsync(r)
    \/ \E f \in FrameIds, n \in NestedChoices :
            \E result \in {0, HandlerResponse("request", chain.frames[f].index)} :
                RequestHandlerReturns(f, result, n)
    \/ \E f \in FrameIds : RequestHandlerThrows(f)
    \/ \E f \in FrameIds, n \in NestedChoices :
            \E result \in {0, HandlerResponse("response", chain.frames[f].index)} :
                ResponseHandlerReturns(f, result, n)
    \/ \E f \in FrameIds : ResponseHandlerThrows(f)
    \/ \E f \in FrameIds, n \in NestedChoices : NestedSettles(f, n)

SpecReentrant == InitChain /\ [][NextReentrant]_vars

----------------------------------------------------------------------------
(* The transport request handler (node.ts) on its own: Init draws the request,
   one action is the executor of the promise handleRequestAsync returns, the
   others are the events of the ClientRequest it created. *)

MaxRaw == 4     \* strings in the rawHeaders of a response

Protocols == {"http:", "https:", "ftp:"}

\* request.clientCert: the type of the certificate, "none" for no certificate.
ClientCertTypes == {"none", "pem", "pfx", "other"}

NodeRequests == [protocol : Protocols, clientCert : ClientCertTypes]

\* What https.request(options) does: it returns a ClientRequest, or throws an error
\* whose message is "mac verify failure", or throws another error.
SecureRequestOutcomes == {"ok", "mac verify failure", "error"}

RawStrings == {"X-Foo", "1", "2"}
RawHeaderLists == UNION {[1..n -> RawStrings] : n \in 0..MaxRaw}

\* The state of one invocation: the promise handleRequestAsync returned (promise,
\* error, headers of the response it resolved with), the calls of resolve/reject
\* (settleCalls), the calls of http(s).request (requests), whether a ClientRequest
\* was created and written to and whether its options held a client certificate,
\* the calls of https.request in order, each with the client-certificate options it
\* was given and what it did (tries), the rawHeaders of the response event, and the
\* events that have fired.
Node(request) ==
    [phase |-> "idle", request |-> request,
     promise |-> "pending", error |-> "", headers |-> <<>>, settleCalls |-> 0,
     requests |-> 0, created |-> FALSE, written |-> FALSE, certOptions |-> FALSE,
     tries |-> <<>>, raw |-> <<>>, responded |-> FALSE, failed |-> FALSE]

\* resolve(httpResponse) / reject(error): the first call settles the promise.
Resolve(n, headers) ==
    IF n.promise = "pending"
        THEN [n EXCEPT !.promise = "resolved", !.headers = headers,
                       !.settleCalls = @ + 1]
        ELSE [n EXCEPT !.settleCalls = @ + 1]

Reject(n, error) ==
    IF n.promise = "pending"
        THEN [n EXCEPT !.promise = "rejected", !.error = error, !.settleCalls = @ + 1]
        ELSE [n EXCEPT !.settleCalls = @ + 1]

\* Lines 174-212: the listeners are attached, the body is written, end().
Sent(n, requests, certOptions) ==
    [n EXCEPT !.phase = "sent", !.requests = requests, !.created = TRUE,
              !.written = TRUE, !.certOptions = certOptions]

Returned(n, requests) == [n EXCEPT !.phase = "returned", !.requests = requests]

\* The client-certificate options of lines 124-146, for a certificate that has
\* every optional part (key, password).
ClientCertOptions == {"key", "cert", "passphrase", "pfx"}

CertOptions(clientCert) ==
    IF clientCert = "pem" THEN {"cert", "key", "passphrase"}
    ELSE IF clientCert = "pfx" THEN {"pfx", "passphrase"}
    ELSE {}

\* InvalidClientCert without the return of line 149: the executor goes on to
\* https.request with the options it has.
InvalidClientCert_NoReturn(n) == Sent(Reject(n, "Invalid clientCert.type"), 1, FALSE)

\* Lines 147-150: reject(new Error(`Invalid clientCert.type: ...`)); return;
InvalidClientCert(n) == Returned(Reject(n, "Invalid clientCert.type"), 0)

\* WithoutClientCert of a handler that leaves the pfx option in place.
WithoutClientCert_KeepsPfx(options) == options \ {"key", "cert", "passphrase"}

\* Lines 157-160: delete options["key"], ["cert"], ["passphrase"], ["pfx"]
WithoutClientCert(options) == options \ {"key", "cert", "passphrase", "pfx"}

\* Line 156: err && err.message === "mac verify failure"
IsMacVerifyFailure(err) == err = "mac verify failure"

\* https.request(options) was called and did outcome.
Tried(n, options, outcome) ==
    [n EXCEPT !.tries = Append(@, [options |-> options, outcome |-> outcome])]

\* The executor, lines 77-212, where https.request behaves as first and, called a
\* second time, as second. The second call (line 162) is not inside a try: an
\* error it throws leaves the executor, and an error thrown in the executor
\* rejects the promise.
Executor(n, first, second) ==
    IF n.request.protocol = "http:" THEN Sent(n, 1, FALSE)
    ELSE IF n.request.protocol = "https:" THEN
        IF n.request.clientCert = "other" THEN InvalidClientCert(n)
        ELSE LET options == CertOptions(n.request.clientCert)
                 retried == WithoutClientCert(options)
                 one == Tried(n, options, first)
                 two == Tried(one, retried, second)
             IN  IF first = "ok"
                     THEN Sent(one, 1, options \cap ClientCertOptions # {})
                 ELSE IF IsMacVerifyFailure(first)
                     THEN IF second = "ok"
                             THEN Sent(two, 2, retried \cap ClientCertOptions # {})
                             ELSE Returned(Reject(two, second), 2)
                 ELSE Returned(Reject(one, first), 1)
    ELSE Returned(n, 0)

\* The loop of generateHeaders, lines 44-52, from valueIndex on (counted from 0).
RECURSIVE GenerateLoop(_, _, _, _)
GenerateLoop(headers, valueIndex, header, generatedHeaders) ==
    IF ~(valueIndex < Len(headers)) THEN generatedHeaders
    ELSE IF valueIndex % 2 = 0
        THEN GenerateLoop(headers, valueIndex + 1,
                          [name |-> headers[valueIndex + 1]], generatedHeaders)
        ELSE GenerateLoop(headers, valueIndex + 1, header,
                          Append(generatedHeaders,
                                 Header(header.name, headers[valueIndex + 1])))

\* GenerateHeaders of a loop that starts at the second string.
GenerateHeaders_FromOne(headers) == GenerateLoop(headers, 1, [name |-> ""], <<>>)

\* generateHeaders(headers), lines 40-55
GenerateHeaders(headers) == GenerateLoop(headers, 0, [name |-> ""], <<>>)

InitNode ==
    /\ requestTemplate = <<>>
    /\ siteMap = [s \in Sites |-> Absent]
    /\ calls = <<>>
    /\ attempts = <<>>
    /\ merge = NoMerge
    /\ chain = NoChain
    /\ node \in {Node(r) : r \in NodeRequests}

\* handleRequestAsync is called: the executor runs to its end.
NodeExecutor(first, second) ==
    /\ node.phase = "idle"
    /\ node' = Executor(node, first, second)
    /\ UNCHANGED <<requestTemplate, siteMap, calls, attempts, merge, chain>>

\* The "response" event of the ClientRequest, lines 174-184.
NodeResponse(raw) ==
    /\ node.phase = "sent"
    /\ ~node.responded
    /\ node' = [Resolve(node, GenerateHeaders(raw)) EXCEPT !.raw = raw, !.responded = TRUE]
    /\ UNCHANGED <<requestTemplate, siteMap, calls, attempts, merge, chain>>

\* The "error" event of the ClientRequest, line 206.
NodeError ==
    /\ node.phase = "sent"
    /\ ~node.failed
    /\ node' = [Reject(node, "error") EXCEPT !.failed = TRUE]
    /\ UNCHANGED <<requestTemplate, siteMap, calls, attempts, merge, chain>>

NextNode ==
    \/ \E first \in SecureRequestOutcomes, second \in SecureRequestOutcomes :
            NodeExecutor(first, second)
    \/ \E raw \in RawHeaderLists : NodeResponse(raw)
    \/ NodeError

SpecNode == InitNode /\ [][NextNode]_vars

----------------------------------------------------------------------------
(* Properties *)

CallIds == 1..Len(calls)
AttemptIds == 1..Len(attempts)

HasAuthorization(request) == HasHeaders(request) /\ FindAuthorization(request)
NoAuthorization(request) == HasHeaders(request) /\ ~FindAuthorization(request)

\* c's handler began the attempt c.token / c's handler found it in siteMap.
IsInitiator(c) == calls[c].token # 0 /\ attempts[calls[c].token].initiator = c
IsWaiter(c) == calls[c].token # 0 /\ attempts[calls[c].token].initiator # c

PendingFor(site) == {a \in AttemptIds : attempts[a].site = site /\ Pending(a)}

\* In this step the response handler of c ran on a 401/403 response.
Challenged(c) ==
    calls[c].pc = "transport" /\ calls'[c].pc # "transport" /\ IsChallenge(calls'[c].response)

\* In this step an attempt for the site began.
AttemptBegins(site) ==
    Len(attempts') > Len(attempts) /\ attempts'[Len(attempts')].site = site

\* C1: in every reachable state, every site has at most one authentication attempt
\* that has started and not yet settled, whether or not the requests carried an
\* Authorization header.
C1_SingleFlightPerSite ==
    \A s \in Sites : Cardinality(PendingFor(s)) <= 1

C3_ConsistentOutcome ==
    \A c \in CallIds :
        (/\ calls[c].token # 0
         /\ NoAuthorization(calls[c].request)
         /\ attempts[calls[c].token].stage = "fulfilled")
            => IF attempts[calls[c].token].value = 0
                  THEN /\ calls[c].retry = 0
                       /\ calls[c].pc = "done" => IsChallenge(calls[c].response)
                  ELSE (IsWaiter(c) /\ calls[c].pc = "done") => calls[c].retry # 0

\* C4: no attempt is begun by the handler of a request that carries an
\* Authorization header.
C4_NoAttemptWithAuthorization ==
    \A a \in AttemptIds : ~HasAuthorization(calls[attempts[a].initiator].request)

\* C5: once the record of a site is not-supported it stays not-supported, and no
\* step begins an attempt (a metadata fetch) for the site.
C5_NotSupportedIsFinal ==
    [][\A s \in Sites :
        siteMap[s] = NotSupported => (siteMap'[s] = NotSupported /\ ~AttemptBegins(s))]_vars

\* C6: while the record of a site is retry, no step begins an attempt for the site,
\* and every 401/403 response for the site is answered by issuing the request again
\* at once.
C6_RetrySkipsAttempt ==
    [][\A s \in Sites :
        siteMap[s] = Retry =>
            /\ ~AttemptBegins(s)
            /\ \A c \in CallIds :
                    (SiteId(calls[c].request) = s /\ Challenged(c)) =>
                        /\ calls'[c].pc = "awaitRetry"
                        /\ calls'[c].retry = Len(calls')
                        /\ calls'[Len(calls')].kind = "retry"]_vars

\* C7: the step in which the completion callback of a fulfilled attempt runs sets
\* the record of the attempt's site to retry when the attempt yielded a response and
\* to not-supported when it yielded nothing; an attempt yields nothing when its
\* metadata response is not a 200, and yields a response only out of the login flow.
C7_CompletionSetsRecord ==
    [][\A a \in AttemptIds :
        /\ (~attempts[a].then /\ attempts'[a].then) =>
                /\ attempts[a].stage = "fulfilled"
                /\ siteMap'[attempts[a].site].state # "Promise"
                /\ siteMap'[attempts[a].site] = Retry <=> attempts[a].value # 0
                /\ siteMap'[attempts[a].site] = NotSupported <=> attempts[a].value = 0
        /\ (attempts'[a].stage = "fulfilled" /\ calls'[attempts[a].meta].response # 200)
                => attempts'[a].value = 0
        /\ (attempts[a].stage # "fulfilled" /\ attempts'[a].stage = "fulfilled"
                /\ attempts'[a].value # 0) => attempts[a].stage = "login"]_vars

\* The callbacks of two attempts have run: one yielded nothing, the later one a
\* response, and the record is retry.
C7_Witness ==
    \E a, b \in AttemptIds :
        /\ attempts[a].then /\ attempts[a].value = 0
        /\ calls[attempts[a].meta].response = 404
        /\ attempts[b].then /\ attempts[b].value # 0
        /\ siteMap[attempts[b].site] = Retry

\* C8: once an attempt has failed with an error and its initiator has received the
\* error, the record of the site is no longer that attempt.
C8_FailedAttemptReleased ==
    \A a \in AttemptIds :
        (attempts[a].stage = "rejected" /\ calls[attempts[a].initiator].pc = "failed")
            => siteMap[attempts[a].site] # InFlight(a)

\* C9: a caller that finds the record in-flight waits on the attempt the record
\* holds, the one its initiator stored, and has not issued its request again unless
\* that attempt is fulfilled.
C9_WaitersShareAttempt ==
    [][\A c \in CallIds :
        /\ (calls[c].pc = "transport" /\ calls'[c].pc = "awaitRecord") =>
                /\ siteMap[SiteId(calls[c].request)] = InFlight(calls'[c].token)
                /\ attempts[calls'[c].token].site = SiteId(calls[c].request)
                /\ attempts[calls'[c].token].initiator # c
        /\ (calls'[c].token # 0 /\ attempts'[calls'[c].token].initiator # c
                /\ calls'[c].retry # 0) =>
                attempts'[calls'[c].token].stage = "fulfilled"]_vars

\* A waiter has issued its request again after the attempt it waited on.
C9_Witness ==
    \E c \in CallIds :
        /\ IsWaiter(c)
        /\ calls[c].retry # 0
        /\ calls[calls[c].retry].kind = "retry"
        /\ attempts[calls[c].token].stage = "fulfilled"

\* C10: with a template configured, the headers of the effective request are the
\* template's headers followed by the request's own headers.
C10_HeadersConcatenated ==
    (merge.effective # <<>> /\ merge.tmpl # <<>>) =>
        merge.effective[1].headers =
            (IF HasHeaders(merge.tmpl[1]) THEN merge.tmpl[1].headers ELSE <<>>)
                \o (IF HasHeaders(merge.request) THEN merge.request.headers ELSE <<>>)

\* The fields of a request other than headers (IHttpRequest).
NonHeaderFields == {"method", "url", "body", "sslVersion", "clientCert"}

\* C11: with a template configured, every non-header field of the effective request
\* is the request's own value when the request sets the field, the template's value
\* when only the template sets it, and is not set when neither does.
C11_RequestOverridesTemplate ==
    (merge.effective # <<>> /\ merge.tmpl # <<>>) =>
        \A f \in NonHeaderFields :
            IF f \in DOMAIN merge.request
                THEN f \in DOMAIN merge.effective[1]
                        /\ merge.effective[1][f] = merge.request[f]
            ELSE IF f \in DOMAIN merge.tmpl[1]
                THEN f \in DOMAIN merge.effective[1]
                        /\ merge.effective[1][f] = merge.tmpl[1][f]
            ELSE f \notin DOMAIN merge.effective[1]

\* A merge in which the request overrides the template's method and the template
\* supplies nothing for url.
C11_Witness ==
    /\ merge.effective # <<>> /\ merge.tmpl # <<>>
    /\ merge.tmpl[1].method = "GET"
    /\ "method" \in DOMAIN merge.request /\ merge.request.method = "POST"
    /\ merge.effective[1].method = "POST"
    /\ merge.effective[1].url = "a"

\* The handler invocations a frame has made in one chain, in the order it made them.
IsRequestEntry(e) == e.chain = "request"
IsResponseEntry(e) == e.chain = "response"
RequestTrace(f) == SelectSeq(chain.frames[f].trace, IsRequestEntry)
ResponseTrace(f) == SelectSeq(chain.frames[f].trace, IsResponseEntry)

\* What a settled handler invocation left in response: result || response.
LeftBy(e) == IF e.result # 0 THEN e.result ELSE e.response

\* C12: the request handlers of a requestAsync invocation are invoked in
\* registration order, before any response handler; handler i is invoked only after
\* handlers 1..i-1 have each resolved with no value, and after a handler has
\* resolved with a response no further request handler is invoked.
C12_RequestHandlersInOrder ==
    \A f \in FrameIds :
        LET trace == chain.frames[f].trace
            rq == RequestTrace(f)
        IN  /\ Len(rq) <= Len(chain.requestHandlers)
            /\ \A k \in 1..Len(rq) :
                    /\ rq[k].index = k
                    /\ trace[k] = rq[k]
                    /\ k < Len(rq) => (rq[k].status = "returned" /\ rq[k].result = 0)
                    /\ (rq[k].status = "returned" /\ rq[k].result # 0) => k = Len(rq)

\* With three request handlers registered, handler 1 declined, handler 2 was invoked
\* and returned a response, and the invocation has returned without invoking
\* handler 3.
C12_Witness ==
    /\ Len(chain.requestHandlers) = 3
    /\ \E f \in FrameIds :
        /\ chain.frames[f].phase = "done"
        /\ Len(RequestTrace(f)) = 2
        /\ RequestTrace(f)[1].status = "returned" /\ RequestTrace(f)[1].result = 0
        /\ RequestTrace(f)[2].status = "returned" /\ RequestTrace(f)[2].result # 0

\* C13: the response handlers of a requestAsync invocation are invoked once each in
\* registration order; the first is given the response of the request chain, each
\* later one the response its predecessor left (its result when it returned a
\* response, the response it was given when it returned no value), and the
\* invocation returns the response the last handler left.
C13_ResponseHandlersChain ==
    \A f \in FrameIds :
        LET rq == RequestTrace(f)
            rs == ResponseTrace(f)
        IN  /\ Len(rs) <= chain.responseHandlers
            /\ \A k \in 1..Len(rs) :
                    /\ rs[k].index = k
                    /\ rs[k].response =
                            IF k = 1 THEN rq[Len(rq)].result ELSE LeftBy(rs[k - 1])
                    /\ rs[k].response # 0
                    /\ k < Len(rs) => rs[k].status = "returned"
            /\ chain.frames[f].phase = "done" =>
                    /\ Len(rs) = chain.responseHandlers
                    /\ \A k \in 1..Len(rs) : rs[k].status = "returned"
                    /\ chain.frames[f].response =
                            IF Len(rs) = 0 THEN rq[Len(rq)].result ELSE LeftBy(rs[Len(rs)])

\* An invocation has returned after two response handlers: the first replaced the
\* response, the second returned no value, and the caller got the first's response.
C13_Witness ==
    \E f \in FrameIds :
        /\ chain.frames[f].phase = "done"
        /\ Len(ResponseTrace(f)) = 2
        /\ ResponseTrace(f)[1].result = HandlerResponse("response", 1)
        /\ ResponseTrace(f)[1].response # HandlerResponse("response", 1)
        /\ ResponseTrace(f)[2].response = HandlerResponse("response", 1)
        /\ ResponseTrace(f)[2].result = 0
        /\ chain.frames[f].response = HandlerResponse("response", 1)

\* C14: an invocation all of whose request handlers have declined (none being
\* registered included) has failed with the "no handler" error, has invoked no
\* response handler and no request handler a second time, and no requestAsync was
\* made on its behalf.
C14_NoHandlerError ==
    \A f \in FrameIds :
        LET rq == RequestTrace(f)
        IN  (/\ Len(rq) = Len(chain.requestHandlers)
             /\ \A k \in 1..Len(rq) : rq[k].status = "returned" /\ rq[k].result = 0)
                => /\ chain.frames[f].phase = "failed"
                   /\ chain.frames[f].error = NoHandlerError
                   /\ chain.frames[f].trace = rq
                   /\ \A g \in FrameIds : chain.frames[g].by # f

\* With response handlers registered, all three request handlers declined and the
\* invocation failed.
C14_Witness ==
    /\ chain.responseHandlers > 0
    /\ \E f \in FrameIds :
        /\ Len(RequestTrace(f)) = 3
        /\ \A k \in 1..3 : RequestTrace(f)[k].status = "returned"
                                /\ RequestTrace(f)[k].result = 0
        /\ chain.frames[f].phase = "failed"

\* C16: when a handler of either chain has rejected, the invocation has failed
\* with the handler's error, and that handler is the last one the invocation has
\* invoked; an invocation fails with no other error than its handler's or the
\* "no handler" error.
C16_ErrorsPropagate ==
    \A f \in FrameIds :
        LET trace == chain.frames[f].trace
        IN  /\ \A k \in 1..Len(trace) :
                    trace[k].status = "threw" =>
                        /\ k = Len(trace)
                        /\ chain.frames[f].phase = "failed"
                        /\ chain.frames[f].error = trace[k].error
                        /\ trace[k].error =
                                IF trace[k].nested # 0
                                    THEN chain.frames[trace[k].nested].error
                                    ELSE HandlerError(trace[k].chain, trace[k].index)
            /\ (chain.frames[f].phase = "failed" /\ chain.frames[f].error # NoHandlerError)
                    => (Len(trace) > 0 /\ trace[Len(trace)].status = "threw")

\* The first of two response handlers rejected: the invocation failed with that
\* handler's error and the second response handler was not invoked.
C16_Witness ==
    /\ chain.responseHandlers = 2
    /\ \E f \in FrameIds :
        /\ chain.frames[f].phase = "failed"
        /\ chain.frames[f].error = HandlerError("response", 1)
        /\ Len(ResponseTrace(f)) = 1
        /\ ResponseTrace(f)[1].status = "threw"

\* C15: once the transport handler has been called for a request whose scheme is
\* neither http nor https, the promise it returned is resolved, with no response.
C15_UnsupportedSchemeDeclines ==
    (node.phase # "idle" /\ node.request.protocol \notin {"http:", "https:"}) =>
        (node.promise = "resolved" /\ node.headers = <<>> /\ ~node.created)

\* C18: the headers of the response the transport handler resolves with are the
\* rawHeaders of the response paired in sequence: for n raw strings there are n
\* div 2 headers, and header k (from 0) is {name: raw[2k], value: raw[2k+1]}.
C18_RawHeadersPaired ==
    (node.responded /\ node.promise = "resolved") =>
        /\ Len(node.headers) = Len(node.raw) \div 2
        /\ \A k \in 0..(Len(node.headers) - 1) :
                node.headers[k + 1] = Header(node.raw[2 * k + 1], node.raw[2 * k + 2])

\* A response whose rawHeaders repeat a name: both headers are kept, in order.
C18_Witness ==
    /\ node.responded /\ node.promise = "resolved"
    /\ node.raw = <<"X-Foo", "1", "X-Foo", "2">>
    /\ node.headers = <<Header("X-Foo", "1"), Header("X-Foo", "2")>>

\* The host a call's request is sent to.
HostOf(c) == calls[c].request.url

\* What the handler does for a request without an Authorization header, by the
\* state of the record alone.
PcFor(state) ==
    CASE state = "absent" -> "awaitAttempt"
      [] state = "Promise" -> "awaitRecord"
      [] state = "Retry" -> "awaitRetry"
      [] state = "NotSupported" -> "done"

\* C17: a step in which the handler runs on a 401/403 response of a request to
\* host A leaves the record of every other host as it was, does what the record of
\* A alone determines, and makes the caller wait only on an attempt for A; the
\* completion callback of an attempt changes the record of the attempt's host only.
C17_HostsIndependent ==
    [][/\ \A c \in CallIds :
            Challenged(c) =>
                /\ \A b \in Sites \ {HostOf(c)} : siteMap'[b] = siteMap[b]
                /\ calls'[c].pc = PcFor(siteMap[HostOf(c)].state)
                /\ calls'[c].pc = "awaitRecord" =>
                        attempts[calls'[c].token].site = HostOf(c)
                /\ calls'[c].pc = "awaitAttempt" =>
                        /\ attempts'[calls'[c].token].site = HostOf(c)
                        /\ siteMap'[HostOf(c)] = InFlight(calls'[c].token)
       /\ \A a \in AttemptIds :
            (~attempts[a].then /\ attempts'[a].then) =>
                /\ attempts[a].site = HostOf(attempts[a].initiator)
                /\ \A b \in Sites \ {attempts[a].site} : siteMap'[b] = siteMap[b]]_vars

\* While an attempt for one host is pending, a request to another host has been
\* answered 401 and has begun an attempt of its own instead of waiting.
C17_Witness ==
    \E c, d \in CallIds :
        /\ HostOf(c) # HostOf(d)
        /\ calls[c].pc = "awaitAttempt" /\ calls[d].pc = "awaitAttempt"
        /\ Pending(calls[c].token) /\ Pending(calls[d].token)
        /\ calls[c].token < calls[d].token
        /\ siteMap[HostOf(c)] = InFlight(calls[c].token)
        /\ siteMap[HostOf(d)] = InFlight(calls[d].token)

\* The handler of call c has been invoked and the promise it returned has not
\* settled: c waits for an attempt, for a record or for a nested requestAsync.
HandlerPending(c) ==
    c \in CallIds /\ calls[c].pc \in {"awaitAttempt", "awaitRecord", "awaitRetry"}

HandlerSettled(c) == c \in CallIds /\ calls[c].pc \in {"done", "failed"}

\* C20: every invocation of the handler eventually settles: a call that waits in
\* the handler eventually is done or has failed (or the model has no call left for
\* the request the handler would issue).
C20_HandlerSettles ==
    \A c \in 1..MaxCalls :
        [](HandlerPending(c) =>
                <>(HandlerSettled(c) \/ Len(calls) = MaxCalls))

\* The effective request of a frame as it is now.
EffectiveNow(f) == RequestValue(requestTemplate, chain.objects[chain.frames[f].request])

\* C19: for every response handler j of an invocation f that made a nested
\* requestAsync g: the nested invocation, when it returns, has run its own request
\* chain and all response handlers; while f awaits handler j its position is j and
\* its effective request is the one handler j was given; once handler j has
\* returned, its result is what g returned, and handler j+1, when invoked, is
\* given the response handler j left and the same effective request.
C19_ReentrantCalls ==
    \A f \in FrameIds :
        LET trace == chain.frames[f].trace
        IN  \A k \in 1..Len(trace) :
                trace[k].nested # 0 =>
                    LET g == trace[k].nested
                    IN  /\ chain.frames[g].by = f
                        /\ chain.frames[g].phase = "done" =>
                                /\ Len(RequestTrace(g)) >= 1
                                /\ Len(ResponseTrace(g)) = chain.responseHandlers
                        /\ trace[k].status = "pending" =>
                                /\ k = Len(trace)
                                /\ chain.frames[f].phase = "response"
                                /\ chain.frames[f].index = trace[k].index
                                /\ EffectiveNow(f) = trace[k].request
                        /\ trace[k].status = "returned" =>
                                /\ trace[k].result = chain.frames[g].response
                                /\ EffectiveNow(f) = trace[k].request
                                /\ k < Len(trace) =>
                                        /\ trace[k + 1].index = trace[k].index + 1
                                        /\ trace[k + 1].response = LeftBy(trace[k])
                                        /\ trace[k + 1].request = trace[k].request

\* The number of times the handler has issued the request of call c again, one
\* re-issue after the other, since a caller made it.
RECURSIVE RetryDepth(_)
RetryDepth(c) == IF calls[c].kind = "retry" THEN 1 + RetryDepth(calls[c].by) ELSE 0

\* C21: the chain "the handler issues the request again, the new request is
\* answered 401/403, the handler issues it again" ends of itself: it never takes
\* up every invocation the model has room for after the caller's own.
C21_RetryChainBounded ==
    \A c \in CallIds : RetryDepth(c) < MaxCalls - 1

\* In this step the continuation of c runs on its fulfilled tokenPromise: the
\* initiator's requestAsync resumes (line 82 of http-pipeline.ts), or the waiter's
\* callback of line 72 issues the request again.
ResumesOnToken(c) ==
    /\ calls[c].pc \in {"awaitAttempt", "awaitRecord"}
    /\ calls'[c].pc # calls[c].pc
    /\ attempts[calls[c].token].stage = "fulfilled"

\* C22: when an attempt is fulfilled, the callback of line 84 has taken the attempt's
\* in-flight entry out of the site's record before the initiator's requestAsync
\* resumes and before a waiter issues its request again; a request issued again
\* after the attempt that is answered 401/403 does not find the record bound to
\* that attempt.
C22_RecordSettledBeforeResume ==
    [][\A c \in CallIds :
        /\ ResumesOnToken(c) =>
                /\ attempts[calls[c].token].then
                /\ siteMap[attempts[calls[c].token].site] # InFlight(calls[c].token)
        /\ (Challenged(c) /\ calls[c].kind = "retry" /\ calls[calls[c].by].token # 0) =>
                siteMap[SiteId(calls[c].request)] # InFlight(calls[calls[c].by].token)]_vars

\* A waiter issued its request again after the attempt, the initiator has resumed,
\* and the request issued again was answered 401/403 and handled.
C22_Witness ==
    \E c \in CallIds :
        /\ IsWaiter(c)
        /\ calls[c].retry # 0
        /\ calls[calls[c].retry].pc # "transport"
        /\ IsChallenge(calls[calls[c].retry].response)
        /\ attempts[calls[c].token].then
        /\ calls[attempts[calls[c].token].initiator].pc = "done"

\* C23: in every reachable state, the record of a site with an attempt that has
\* started and not settled is that attempt's in-flight entry.
C23_PendingAttemptOwnsRecord ==
    \A a \in AttemptIds :
        Pending(a) => siteMap[attempts[a].site] = InFlight(a)

\* C24: a request without a headers field that was answered 401/403 is handled as a
\* request without an Authorization header is: its invocation waits on an attempt,
\* has issued the request again, or returned the response; it did not fail in the
\* handler.
C24_MissingHeadersHandled ==
    \A c \in CallIds :
        (~HasHeaders(calls[c].request) /\ IsChallenge(calls[c].response)) =>
            (calls[c].token # 0 \/ calls[c].retry # 0 \/ calls[c].pc = "done")

\* C25: an https request whose clientCert is of a type other than "pem" and "pfx"
\* is rejected with the invalid-type error, by the one call of reject there is, and
\* no request was created or written.
C25_InvalidClientCertRejected ==
    (/\ node.phase # "idle"
     /\ node.request.protocol = "https:"
     /\ node.request.clientCert = "other") =>
        /\ node.promise = "rejected"
        /\ node.error = "Invalid clientCert.type"
        /\ node.settleCalls = 1
        /\ node.requests = 0
        /\ node.tries = <<>>
        /\ ~node.created
        /\ ~node.written

\* The handler has returned for such a request.
C25_Witness ==
    /\ node.phase = "returned"
    /\ node.request.protocol = "https:"
    /\ node.request.clientCert = "other"
    /\ node.promise = "rejected"

\* The last call of https.request.
LastTry == node.tries[Len(node.tries)]

\* C26: https.request is called a second time exactly when the first call threw a
\* MAC verification failure, never a third time, and the second call has none of
\* the client-certificate options; when the last call threw, the promise is
\* rejected with that error and no request exists.
C26_RetryOnceWithoutClientCert ==
    (/\ node.phase # "idle"
     /\ node.request.protocol = "https:"
     /\ node.request.clientCert # "other") =>
        /\ Len(node.tries) \in {1, 2}
        /\ node.requests = Len(node.tries)
        /\ Len(node.tries) = 2 <=> node.tries[1].outcome = "mac verify failure"
        /\ Len(node.tries) = 2 => node.tries[2].options \cap ClientCertOptions = {}
        /\ LastTry.outcome # "ok" =>
                /\ node.phase = "returned"
                /\ node.promise = "rejected"
                /\ node.error = LastTry.outcome
                /\ node.settleCalls = 1
                /\ ~node.created
        /\ LastTry.outcome = "ok" => node.phase = "sent" /\ node.created

\* The first call, with a client certificate, threw a MAC verification failure, and
\* the second call threw one too: the promise is rejected, there is no third call.
C26_Witness ==
    /\ node.phase = "returned"
    /\ Len(node.tries) = 2
    /\ node.tries[1].options # {}
    /\ node.tries[1].outcome = "mac verify failure"
    /\ node.tries[2].outcome = "mac verify failure"
    /\ node.promise = "rejected"

====
